---- MODULE Spec2Model ----
(***************************************************************************)
(* Session extraction and window alignment of the contact/weather sensor   *)
(* plotter (src/main.py).                                                  *)
(*                                                                         *)
(* A datetime is a record [s, us]: whole seconds since 00:00:00 of day 0   *)
(* and microseconds 0..999999.  A timedelta has the same shape, in         *)
(* Python's normal form (0 <= us < 10^6, s possibly negative).  A duration *)
(* "in minutes" or "in hours" is kept as the exact timedelta it is the     *)
(* quotient of; the thresholds 1440 (minutes) and 24 (hours) are converted *)
(* with the source's factors 60 and 3600.                                  *)
(***************************************************************************)
EXTENDS Integers, Sequences, FiniteSets, TLC

VARIABLES
    flow,               \* "contact": plot_contact_data, "multiple": plot_multiple_data
    start_date,         \* the window handed to the plot function (None: no window)
    end_date,
    df,                 \* the frame of the file being processed, as the caller holds it
    pc,                 \* position in the processing of the file
    cs_start,           \* calculate_statistics: its local start_date / end_date
    cs_end,
    rows,               \* calculate_statistics: its local, filtered df
    i,                  \* calculate_statistics: index of the next row of the loop
    open_sessions,
    session_durations,
    daily_open_times,
    open_time,
    stats,              \* the returned summary (NoStats before the return)
    h_input,            \* history: the frame as read_contact_file returned it
    h_prefake,          \* history: the frame handed to add_fake_states
    h_sessions,         \* history: the emitted sessions [open_at, close_at, duration, at_row]
    h_gap_discards,     \* history: sessions dropped by the 24 h gap rule
    h_close_discards,   \* history: sessions dropped at close for duration > 1440
    files,              \* the uploaded files [kind, wellformed, frame], in order
    fidx,               \* the position in files of the file being processed
    show_stats,         \* the "Show Statistics" checkbox
    all_stats,          \* the collected summaries [name, summary]
    overall             \* the overall statistics (NoOverall: none written)

vars == <<flow, start_date, end_date, df, pc, cs_start, cs_end, rows, i,
          open_sessions, session_durations, daily_open_times, open_time, stats,
          h_input, h_prefake, h_sessions, h_gap_discards, h_close_discards,
          files, fidx, show_stats, all_stats, overall>>

---------------------------------------------------------------------------
(* Bounds of the model *)

MaxLen == 4

---------------------------------------------------------------------------
(* datetime / timedelta arithmetic *)

SecondsPerDay == 86400

MicrosPerSecond == 1000000

T(sec, micro) == [s |-> sec, us |-> micro]

\* Python's None (and pandas' NaT) for a datetime-valued variable
None == [s |-> -1, us |-> 0]

TLe(a, b) == a.s < b.s \/ (a.s = b.s /\ a.us <= b.us)

TLt(a, b) == a.s < b.s \/ (a.s = b.s /\ a.us < b.us)

\* a - b as a normalised timedelta
Diff(a, b) ==
    IF a.us >= b.us THEN [s |-> a.s - b.s, us |-> a.us - b.us]
    ELSE [s |-> a.s - b.s - 1, us |-> a.us - b.us + MicrosPerSecond]

\* a + b on timedeltas
AddDur(a, b) ==
    IF a.us + b.us < MicrosPerSecond THEN [s |-> a.s + b.s, us |-> a.us + b.us]
    ELSE [s |-> a.s + b.s + 1, us |-> a.us + b.us - MicrosPerSecond]

ZeroDur == [s |-> 0, us |-> 0]

\* the timedelta whose total_seconds() / 60 is m, and / 3600 is h
Minutes(m) == [s |-> m * 60, us |-> 0]

Hours(h) == [s |-> h * 3600, us |-> 0]

\* row["Date"].dt.date: the calendar date, as a day number
DateOf(t) == t.s \div SecondsPerDay

\* timedelta.days: the floor of the difference in whole days
DaysOf(d) == d.s \div SecondsPerDay

\* datetime.replace(hour=0, minute=0, second=0, microsecond=0)
ReplaceStartOfDay(t) == T(DateOf(t) * SecondsPerDay, 0)

\* datetime.replace(hour=23, minute=59, second=59, microsecond=999999)
ReplaceEndOfDay(t) == T(DateOf(t) * SecondsPerDay + 23 * 3600 + 59 * 60 + 59, 999999)

\* strftime("%Y-%m-%d %H:%M:%S"): the microseconds are not printed
Strftime(t) == t.s

---------------------------------------------------------------------------
(* Frames: sequences of rows [Date, State] *)

Row(t, st) == [Date |-> t, State |-> st]

RECURSIVE SelectRows_ExclusiveEnd(_, _, _)
\* the upper bound compared with < instead of <=
SelectRows_ExclusiveEnd(f, lo, hi) ==
    IF f = <<>> THEN <<>>
    ELSE LET r == Head(f)
             keep == lo # None /\ hi # None /\ TLe(lo, r.Date) /\ TLt(r.Date, hi)
         IN  (IF keep THEN <<r>> ELSE <<>>) \o SelectRows_ExclusiveEnd(Tail(f), lo, hi)

RECURSIVE SelectRows(_, _, _)
\* df[(df["Date"] >= lo) & (df["Date"] <= hi)]; comparisons with NaT are False
SelectRows(f, lo, hi) ==
    IF f = <<>> THEN <<>>
    ELSE LET r == Head(f)
             keep == lo # None /\ hi # None /\ TLe(lo, r.Date) /\ TLe(r.Date, hi)
         IN  (IF keep THEN <<r>> ELSE <<>>) \o SelectRows(Tail(f), lo, hi)

\* the stream handed on unfiltered
filter_data_by_time_NoFilter(f, lo, hi) == f

\* lines 144-147
filter_data_by_time(f, lo, hi) ==
    IF lo = None \/ hi = None THEN f ELSE SelectRows(f, lo, hi)

\* both boundary points given the state of the first observation
add_fake_states_FirstState(f, lo, hi) ==
    IF lo = None THEN f
    ELSE IF f = <<>> THEN f
    ELSE LET first_state == f[1].State
         IN  <<Row(ReplaceStartOfDay(lo), first_state)>> \o f
                 \o <<Row(ReplaceEndOfDay(hi), first_state)>>

\* lines 125-142
add_fake_states(f, lo, hi) ==
    IF lo = None THEN f
    ELSE IF f = <<>> THEN f
    ELSE LET last_state == f[Len(f)].State
         IN  <<Row(ReplaceStartOfDay(lo), last_state)>> \o f
                 \o <<Row(ReplaceEndOfDay(hi), last_state)>>

\* df["Date"].min() / .max(): NaT on an empty frame
RECURSIVE MinDate(_)
MinDate(f) ==
    IF f = <<>> THEN None
    ELSE LET m == MinDate(Tail(f))
         IN  IF m = None \/ TLe(Head(f).Date, m) THEN Head(f).Date ELSE m

RECURSIVE MaxDate(_)
MaxDate(f) ==
    IF f = <<>> THEN None
    ELSE LET m == MaxDate(Tail(f))
         IN  IF m = None \/ TLe(m, Head(f).Date) THEN Head(f).Date ELSE m

Sorted(f) == \A k \in 1..(Len(f) - 1) : TLe(f[k].Date, f[k + 1].Date)

---------------------------------------------------------------------------
(* Inputs *)

\* Timestamps of the observations: whole seconds (the parse format of
\* read_contact_file has no fraction).  Day 0 23:50:00 and 23:55:00,
\* day 1 00:10:00, 23:50:00 (24h00m00s after the first) and 23:50:01.
TimePoints == {T(85800, 0), T(86100, 0), T(87000, 0), T(172200, 0), T(172201, 0)}

\* (start_date, end_date) as main() resolves them: both or neither.
\* None; Custom day 0 .. day 1; Custom day 1 .. day 1; day 0 23:00 .. day 1 01:00;
\* day 0 23:55:00 .. day 1 23:50:00, both bounds being timestamps of observations.
Windows ==
    { <<None, None>>,
      <<T(0, 0), T(172799, 999999)>>,
      <<T(86400, 0), T(172799, 999999)>>,
      <<T(82800, 0), T(90000, 0)>>,
      <<T(86100, 0), T(172200, 0)>> }

Frames == UNION { [1..n -> {Row(t, st) : t \in TimePoints, st \in {0, 1}}] : n \in 0..MaxLen }

NoStats == [kind |-> "none"]

NoOverall == [kind |-> "none"]

\* an uploaded workbook: a contact file or a Netatmo file, its timestamps
\* parseable or not, and the sorted frame read from it
File(k, ok, f) == [kind |-> k, wellformed |-> ok, frame |-> f]

\* One contact file, read and sorted, about to be processed with statistics shown.
Init ==
    /\ flow \in {"contact", "multiple"}
    /\ \E w \in Windows : start_date = w[1] /\ end_date = w[2]
    /\ df \in {f \in Frames : Sorted(f)}
    /\ h_input = df
    /\ h_prefake = <<>>
    /\ pc = "read"
    /\ cs_start = None
    /\ cs_end = None
    /\ rows = <<>>
    /\ i = 1
    /\ open_sessions = 0
    /\ session_durations = <<>>
    /\ daily_open_times = <<>>
    /\ open_time = None
    /\ stats = NoStats
    /\ h_sessions = <<>>
    /\ h_gap_discards = 0
    /\ h_close_discards = 0
    /\ files = <<File("contact", TRUE, df)>>
    /\ fidx = 1
    /\ show_stats = TRUE
    /\ all_stats = <<>>
    /\ overall = NoOverall

---------------------------------------------------------------------------
(* calculate_statistics: helpers *)

DurLe(a, b) == a.s < b.s \/ (a.s = b.s /\ a.us <= b.us)

DurGt(a, b) == ~DurLe(a, b)

\* the gap compared with >= instead of >
GapTooLong_Inclusive(now, open_at) == ~TLt(Diff(now, open_at), Hours(24))

\* lines 21-22: (row["Date"] - open_time).total_seconds() / 3600 > 24
GapTooLong(now, open_at) == DurGt(Diff(now, open_at), Hours(24))

\* line 29: (row["Date"] - open_time).total_seconds() / 60, as a timedelta
Duration(now, open_at) == Diff(now, open_at)

\* the threshold taken in hours instead of minutes
DurationRealistic_InHours(d) == DurLe(d, Hours(1440))

\* line 30: duration <= 1440
DurationRealistic(d) == DurLe(d, Minutes(1440))

\* the bucket keyed by the date the session opened
BucketDay_OpenDate(r) == DateOf(open_time)

\* line 32 (with line 11): the key of the daily bucket a closing row feeds
BucketDay(r) == DateOf(r.Date)

\* lines 33-35: daily_open_times[day] += duration, creating the key at 0
Accumulate(daily, day, d) ==
    IF day \in DOMAIN daily
    THEN [daily EXCEPT ![day] = AddDur(@, d)]
    ELSE daily @@ (day :> AddDur(ZeroDur, d))

RECURSIVE SumSeq(_)
SumSeq(q) == IF q = <<>> THEN ZeroDur ELSE AddDur(Head(q), SumSeq(Tail(q)))

RECURSIVE SumOver(_, _)
\* the sum of g[k] over the keys k \in S
SumOver(g, S) ==
    IF S = {} THEN ZeroDur
    ELSE LET k == CHOOSE x \in S : TRUE
         IN  AddDur(g[k], SumOver(g, S \ {k}))

\* the closed minutes clamped at 0
ClosedDuration_Clamped(daily) ==
    [d \in DOMAIN daily |->
        IF DurLe(daily[d], Minutes(1440)) THEN Diff(Minutes(1440), daily[d]) ELSE ZeroDur]

\* line 39: Closed_Duration = 1440 - Open_Duration, per bucket
ClosedDuration(daily) == [d \in DOMAIN daily |-> Diff(Minutes(1440), daily[d])]

\* A mean is kept as the pair it is the quotient of; pandas' mean of an
\* empty column is NaN, kept as 0 / 0.
Mean(total, count) == [sum |-> total, n |-> count]

Ratio(a, b) == [num |-> a, den |-> b]

\* the completed sessions counted instead of the opens
MeanOpenSessions_Completed(n_open, n_buckets) ==
    IF n_buckets > 0 THEN Ratio(Len(session_durations), n_buckets) ELSE Ratio(0, 1)

\* line 41
MeanOpenSessions(n_open, n_buckets) ==
    IF n_buckets > 0 THEN Ratio(n_open, n_buckets) ELSE Ratio(0, 1)

\* lines 42-43: Series.mean()
SeriesMean(g) == Mean(SumOver(g, DOMAIN g), Cardinality(DOMAIN g))

\* line 44
MeanOpenTimePerSession(durs) ==
    IF durs # <<>> THEN Mean(SumSeq(durs), Len(durs)) ELSE Mean(ZeroDur, 1)

\* line 50: (end_date - start_date).days + 1
NumberOfDays(lo, hi) == DaysOf(Diff(hi, lo)) + 1

\* lines 38-55; NaT.strftime raises ValueError (lines 48-49)
Summary(lo, hi, n_open, durs, daily) ==
    IF lo = None \/ hi = None THEN [kind |-> "raised"]
    ELSE [ kind |-> "summary",
           From |-> Strftime(lo),
           To |-> Strftime(hi),
           NumberOfDays |-> NumberOfDays(lo, hi),
           MeanMinutesOpenPerDay |-> SeriesMean(daily),
           MeanMinutesClosedPerDay |-> SeriesMean(ClosedDuration(daily)),
           MeanOpeningSessionsPerDay |-> MeanOpenSessions(n_open, Cardinality(DOMAIN daily)),
           MeanOpenTimePerSession |-> MeanOpenTimePerSession(durs) ]

---------------------------------------------------------------------------
(* The callers *)

caller_vars == <<flow, start_date, end_date, h_input, files, fidx, show_stats,
                 all_stats, overall>>

acc_vars == <<open_sessions, session_durations, daily_open_times, open_time,
              h_sessions, h_gap_discards, h_close_discards>>

cs_vars == <<cs_start, cs_end, rows, i>>

\* plot_contact_data, lines 66-67
PlotContactFilter ==
    /\ pc = "read"
    /\ flow = "contact"
    /\ df' = IF start_date # None /\ end_date # None
             THEN SelectRows(df, start_date, end_date) ELSE df
    /\ pc' = "stats_call"
    /\ UNCHANGED <<caller_vars, cs_vars, acc_vars, stats, h_prefake>>

\* plot_multiple_data, line 158
FilterDataByTime ==
    /\ pc = "read"
    /\ flow = "multiple"
    /\ df' = filter_data_by_time(df, start_date, end_date)
    /\ pc' = "fake"
    /\ UNCHANGED <<caller_vars, cs_vars, acc_vars, stats, h_prefake>>

\* plot_multiple_data, line 159
AddFakeStates ==
    /\ pc = "fake"
    /\ h_prefake' = df
    /\ df' = add_fake_states(df, start_date, end_date)
    /\ pc' = "stats_call"
    /\ UNCHANGED <<caller_vars, cs_vars, acc_vars, stats>>

---------------------------------------------------------------------------
(* calculate_statistics *)

\* open_time kept from the previous run, as a module-level variable would be
CalcStatsBegin_KeepsOpenTime ==
    /\ pc = "stats_call"
    /\ show_stats
    /\ LET sub == start_date = None \/ end_date = None
           lo == IF sub THEN MinDate(df) ELSE start_date
           hi == IF sub THEN MaxDate(df) ELSE end_date
       IN  /\ cs_start' = lo
           /\ cs_end' = hi
           /\ rows' = SelectRows(df, lo, hi)
    /\ i' = 1
    /\ open_sessions' = 0
    /\ session_durations' = <<>>
    /\ daily_open_times' = <<>>
    /\ UNCHANGED open_time
    /\ pc' = "loop"
    /\ h_sessions' = <<>>
    /\ h_gap_discards' = 0
    /\ h_close_discards' = 0
    /\ UNCHANGED <<caller_vars, df, stats, h_prefake>>

\* lines 83-84 / 168-169 and 7-16: the window, the filter and the fresh accumulators
CalcStatsBegin ==
    /\ pc = "stats_call"
    /\ show_stats
    /\ LET sub == start_date = None \/ end_date = None
           lo == IF sub THEN MinDate(df) ELSE start_date
           hi == IF sub THEN MaxDate(df) ELSE end_date
       IN  /\ cs_start' = lo
           /\ cs_end' = hi
           /\ rows' = SelectRows(df, lo, hi)
    /\ i' = 1
    /\ open_sessions' = 0
    /\ session_durations' = <<>>
    /\ daily_open_times' = <<>>
    /\ open_time' = None
    /\ pc' = "loop"
    /\ h_sessions' = <<>>
    /\ h_gap_discards' = 0
    /\ h_close_discards' = 0
    /\ UNCHANGED <<caller_vars, df, stats, h_prefake>>

InLoop == pc = "loop" /\ i <= Len(rows)

row == rows[i]

\* the open recorded without counting it
RowOpenIdle_NoCount ==
    /\ InLoop
    /\ row.State = 1
    /\ open_time = None
    /\ open_time' = row.Date
    /\ i' = i + 1
    /\ UNCHANGED <<caller_vars, df, pc, cs_start, cs_end, rows, open_sessions,
                   session_durations, daily_open_times, stats, h_prefake, h_sessions,
                   h_gap_discards, h_close_discards>>

\* lines 19, 25-27: an open while no session is pending
RowOpenIdle ==
    /\ InLoop
    /\ row.State = 1
    /\ open_time = None
    /\ open_time' = row.Date
    /\ open_sessions' = open_sessions + 1
    /\ i' = i + 1
    /\ UNCHANGED <<caller_vars, df, pc, cs_start, cs_end, rows, session_durations,
                   daily_open_times, stats, h_prefake, h_sessions, h_gap_discards,
                   h_close_discards>>

\* lines 19-24: an open more than 24 h after the pending one
RowOpenGap ==
    /\ InLoop
    /\ row.State = 1
    /\ open_time # None
    /\ GapTooLong(row.Date, open_time)
    /\ open_time' = None
    /\ h_gap_discards' = h_gap_discards + 1
    /\ i' = i + 1
    /\ UNCHANGED <<caller_vars, df, pc, cs_start, cs_end, rows, open_sessions,
                   session_durations, daily_open_times, stats, h_prefake, h_sessions,
                   h_close_discards>>

\* the pending session restarted from the repeated open
RowOpenCoalesce_Restart ==
    /\ InLoop
    /\ row.State = 1
    /\ open_time # None
    /\ ~GapTooLong(row.Date, open_time)
    /\ open_time' = row.Date
    /\ i' = i + 1
    /\ UNCHANGED <<caller_vars, df, pc, cs_start, cs_end, rows, open_sessions,
                   session_durations, daily_open_times, stats, h_prefake, h_sessions,
                   h_gap_discards, h_close_discards>>

\* lines 19-22, 25: an open within 24 h of the pending one
RowOpenCoalesce ==
    /\ InLoop
    /\ row.State = 1
    /\ open_time # None
    /\ ~GapTooLong(row.Date, open_time)
    /\ i' = i + 1
    /\ UNCHANGED <<caller_vars, df, pc, cs_start, cs_end, rows, acc_vars, stats,
                   h_prefake>>

\* line 36 left out: the session stays pending after its close
RowClosePending_NoReset ==
    /\ InLoop
    /\ row.State = 0
    /\ open_time # None
    /\ LET duration == Duration(row.Date, open_time)
       IN  IF DurationRealistic(duration)
           THEN /\ session_durations' = Append(session_durations, duration)
                /\ daily_open_times' = Accumulate(daily_open_times, BucketDay(row), duration)
                /\ h_sessions' = Append(h_sessions,
                       [open_at |-> open_time, close_at |-> row.Date, duration |-> duration,
                        at_row |-> i])
                /\ UNCHANGED h_close_discards
           ELSE /\ h_close_discards' = h_close_discards + 1
                /\ UNCHANGED <<session_durations, daily_open_times, h_sessions>>
    /\ UNCHANGED open_time
    /\ i' = i + 1
    /\ UNCHANGED <<caller_vars, df, pc, cs_start, cs_end, rows, open_sessions, stats,
                   h_prefake, h_gap_discards>>

\* line 36 moved inside the branch of line 30: a discarded session stays pending
RowClosePending_KeepOnDiscard ==
    /\ InLoop
    /\ row.State = 0
    /\ open_time # None
    /\ LET duration == Duration(row.Date, open_time)
       IN  IF DurationRealistic(duration)
           THEN /\ session_durations' = Append(session_durations, duration)
                /\ daily_open_times' = Accumulate(daily_open_times, BucketDay(row), duration)
                /\ h_sessions' = Append(h_sessions,
                       [open_at |-> open_time, close_at |-> row.Date, duration |-> duration,
                        at_row |-> i])
                /\ open_time' = None
                /\ UNCHANGED h_close_discards
           ELSE /\ h_close_discards' = h_close_discards + 1
                /\ UNCHANGED <<session_durations, daily_open_times, h_sessions, open_time>>
    /\ i' = i + 1
    /\ UNCHANGED <<caller_vars, df, pc, cs_start, cs_end, rows, open_sessions, stats,
                   h_prefake, h_gap_discards>>

\* lines 28-36: a close of the pending session
RowClosePending ==
    /\ InLoop
    /\ row.State = 0
    /\ open_time # None
    /\ LET duration == Duration(row.Date, open_time)
       IN  IF DurationRealistic(duration)
           THEN /\ session_durations' = Append(session_durations, duration)
                /\ daily_open_times' = Accumulate(daily_open_times, BucketDay(row), duration)
                /\ h_sessions' = Append(h_sessions,
                       [open_at |-> open_time, close_at |-> row.Date, duration |-> duration,
                        at_row |-> i])
                /\ UNCHANGED h_close_discards
           ELSE /\ h_close_discards' = h_close_discards + 1
                /\ UNCHANGED <<session_durations, daily_open_times, h_sessions>>
    /\ open_time' = None
    /\ i' = i + 1
    /\ UNCHANGED <<caller_vars, df, pc, cs_start, cs_end, rows, open_sessions, stats,
                   h_prefake, h_gap_discards>>

\* line 28: a close while no session is pending
RowCloseIdle ==
    /\ InLoop
    /\ row.State = 0
    /\ open_time = None
    /\ i' = i + 1
    /\ UNCHANGED <<caller_vars, df, pc, cs_start, cs_end, rows, acc_vars, stats,
                   h_prefake>>

\* lines 38-55
CalcStatsReturn ==
    /\ pc = "loop"
    /\ i > Len(rows)
    /\ stats' = Summary(cs_start, cs_end, open_sessions, session_durations,
                        daily_open_times)
    /\ pc' = "done"
    /\ UNCHANGED <<caller_vars, df, cs_vars, acc_vars, h_prefake>>

Next ==
    \/ PlotContactFilter
    \/ FilterDataByTime
    \/ AddFakeStates
    \/ CalcStatsBegin
    \/ RowOpenIdle
    \/ RowOpenGap
    \/ RowOpenCoalesce
    \/ RowClosePending
    \/ RowCloseIdle
    \/ CalcStatsReturn

Spec == Init /\ [][Next]_vars

---------------------------------------------------------------------------
(* calculate_statistics as a function of its arguments (lines 6-55) *)

Acc0 == [open_time |-> None, open_sessions |-> 0, session_durations |-> <<>>,
         daily_open_times |-> <<>>]

\* lines 19-36: one iteration of the loop
ScanRow(acc, r) ==
    IF r.State = 1
    THEN IF acc.open_time # None /\ GapTooLong(r.Date, acc.open_time)
         THEN [acc EXCEPT !.open_time = None]
         ELSE IF acc.open_time = None
         THEN [acc EXCEPT !.open_time = r.Date, !.open_sessions = @ + 1]
         ELSE acc
    ELSE IF r.State = 0 /\ acc.open_time # None
    THEN LET duration == Duration(r.Date, acc.open_time)
         IN  IF DurationRealistic(duration)
             THEN [acc EXCEPT !.session_durations = Append(@, duration),
                              !.daily_open_times = Accumulate(@, BucketDay(r), duration),
                              !.open_time = None]
             ELSE [acc EXCEPT !.open_time = None]
    ELSE acc

RECURSIVE ScanRows(_, _)
ScanRows(acc, f) == IF f = <<>> THEN acc ELSE ScanRows(ScanRow(acc, Head(f)), Tail(f))

calculate_statistics(f, lo0, hi0) ==
    LET sub == lo0 = None \/ hi0 = None
        lo == IF sub THEN MinDate(f) ELSE lo0
        hi == IF sub THEN MaxDate(f) ELSE hi0
        acc == ScanRows(Acc0, SelectRows(f, lo, hi))
    IN  Summary(lo, hi, acc.open_sessions, acc.session_durations, acc.daily_open_times)

\* The stepwise loop and the function agree on what is returned.
StepwiseAgrees ==
    pc = "done" => stats = calculate_statistics(df, start_date, end_date)

---------------------------------------------------------------------------
(* A batch of uploaded files: plot_contact_data lines 57-103,
   plot_multiple_data lines 150-189 *)

MaxFiles == 3

\* a timedelta times a natural number
MulDur(d, k) ==
    LET u == d.us * k
    IN  [s |-> d.s * k + (u \div MicrosPerSecond), us |-> u % MicrosPerSecond]

\* the sum of two quotients
AddMean(x, y) == Mean(AddDur(MulDur(x.sum, y.n), MulDur(y.sum, x.n)), x.n * y.n)

AddRatio(x, y) == Ratio(x.num * y.den + y.num * x.den, x.den * y.den)

RECURSIVE TotalMean(_)
TotalMean(q) == IF q = <<>> THEN Mean(ZeroDur, 1) ELSE AddMean(Head(q), TotalMean(Tail(q)))

RECURSIVE TotalRatio(_)
TotalRatio(q) == IF q = <<>> THEN Ratio(0, 1) ELSE AddRatio(Head(q), TotalRatio(Tail(q)))

IsDefined(m) == m.n # 0

\* DataFrame.mean() of a column of quotients: NaN entries are skipped, and
\* the mean of no entry is NaN
MeanOfMeans(q) ==
    LET d == SelectSeq(q, IsDefined)
        t == TotalMean(d)
    IN  IF d = <<>> THEN Mean(ZeroDur, 0) ELSE Mean(t.sum, t.n * Len(d))

MeanOfRatios(q) ==
    LET t == TotalRatio(q)
    IN  IF q = <<>> THEN Ratio(0, 0) ELSE Ratio(t.num, t.den * Len(q))

\* lines 100-101 / 186-187: the columns left by drop(), each averaged
OverallStats(all) ==
    LET col(f) == [k \in 1..Len(all) |-> all[k].summary[f]]
    IN  [ MeanMinutesOpenPerDay |-> MeanOfMeans(col("MeanMinutesOpenPerDay")),
          MeanMinutesClosedPerDay |-> MeanOfMeans(col("MeanMinutesClosedPerDay")),
          MeanOpeningSessionsPerDay |-> MeanOfRatios(col("MeanOpeningSessionsPerDay")),
          MeanOpenTimePerSession |-> MeanOfMeans(col("MeanOpenTimePerSession")) ]

\* The frames of the batch's contact files: no observation; one 5-minute
\* session; a repeated open, a 20-minute session over midnight and a stray
\* close; an open discarded by the gap rule and an open left pending.
BatchFrames ==
    { <<>>,
      <<Row(T(85800, 0), 1), Row(T(86100, 0), 0)>>,
      <<Row(T(85800, 0), 1), Row(T(86100, 0), 1), Row(T(87000, 0), 0),
        Row(T(172200, 0), 0)>>,
      <<Row(T(85800, 0), 1), Row(T(172201, 0), 1), Row(T(172201, 0), 1)>> }

\* None; Custom day 0 .. day 1; day 0 23:00 .. day 1 01:00.
BatchWindows ==
    { <<None, None>>,
      <<T(0, 0), T(172799, 999999)>>,
      <<T(82800, 0), T(90000, 0)>> }

\* plot_contact_data reads every file as a contact file; plot_multiple_data
\* tells contact files from Netatmo files by their names
FileChoices(fl) ==
    {File("contact", TRUE, f) : f \in BatchFrames}
        \cup {File("contact", FALSE, <<>>)}
        \cup (IF fl = "multiple"
              THEN {File("netatmo", ok, <<>>) : ok \in BOOLEAN}
              ELSE {})

InitBatch ==
    /\ flow \in {"contact", "multiple"}
    /\ \E w \in BatchWindows : start_date = w[1] /\ end_date = w[2]
    /\ show_stats \in BOOLEAN
    /\ \E n \in 1..MaxFiles : files \in [1..n -> FileChoices(flow)]
    /\ fidx = 0
    /\ all_stats = <<>>
    /\ overall = NoOverall
    /\ df = <<>>
    /\ h_input = <<>>
    /\ h_prefake = <<>>
    /\ pc = "next_file"
    /\ cs_start = None
    /\ cs_end = None
    /\ rows = <<>>
    /\ i = 1
    /\ open_sessions = 0
    /\ session_durations = <<>>
    /\ daily_open_times = <<>>
    /\ open_time = None
    /\ stats = NoStats
    /\ h_sessions = <<>>
    /\ h_gap_discards = 0
    /\ h_close_discards = 0

batch_frame == <<flow, start_date, end_date, files, show_stats>>

MoreFiles == pc = "next_file" /\ fidx < Len(files)

\* lines 63-64 / 156-157: the next file is a contact file that parses
ReadContactFile ==
    /\ MoreFiles
    /\ files[fidx + 1].kind = "contact"
    /\ files[fidx + 1].wellformed
    /\ fidx' = fidx + 1
    /\ df' = files[fidx + 1].frame
    /\ h_input' = files[fidx + 1].frame
    /\ pc' = "read"
    /\ UNCHANGED <<batch_frame, all_stats, overall, cs_vars, acc_vars, stats, h_prefake>>

\* lines 156-168: a Netatmo file is read, filtered and plotted; it gets
\* neither boundary points nor statistics
ReadNetatmoFile ==
    /\ MoreFiles
    /\ files[fidx + 1].kind = "netatmo"
    /\ files[fidx + 1].wellformed
    /\ fidx' = fidx + 1
    /\ df' = filter_data_by_time(files[fidx + 1].frame, start_date, end_date)
    /\ UNCHANGED <<batch_frame, all_stats, overall, pc, cs_vars, acc_vars, stats,
                   h_input, h_prefake>>

\* lines 110 / 120: pd.to_datetime raises on a timestamp it cannot parse;
\* nothing in the plot function or in main catches it
ReadFileRaises ==
    /\ MoreFiles
    /\ ~files[fidx + 1].wellformed
    /\ fidx' = fidx + 1
    /\ pc' = "aborted"
    /\ UNCHANGED <<batch_frame, all_stats, overall, df, cs_vars, acc_vars, stats,
                   h_input, h_prefake>>

\* lines 83 / 168: show_stats is off
SkipStats ==
    /\ pc = "stats_call"
    /\ ~show_stats
    /\ pc' = "next_file"
    /\ UNCHANGED <<caller_vars, df, cs_vars, acc_vars, stats, h_prefake>>

\* lines 84-87 / 169-172: the summary is kept and written
CollectStats ==
    /\ pc = "done"
    /\ stats.kind = "summary"
    /\ all_stats' = Append(all_stats, [name |-> fidx, summary |-> stats])
    /\ pc' = "next_file"
    /\ UNCHANGED <<batch_frame, fidx, overall, df, cs_vars, acc_vars, stats,
                   h_input, h_prefake>>

\* lines 48-49, 84 / 169: the exception of calculate_statistics leaves the
\* plot function
StatsRaises ==
    /\ pc = "done"
    /\ stats.kind = "raised"
    /\ pc' = "aborted"
    /\ UNCHANGED <<caller_vars, df, cs_vars, acc_vars, stats, h_prefake>>

\* lines 99-103 / 185-189
OverallStatistics ==
    /\ pc = "next_file"
    /\ fidx = Len(files)
    /\ overall' = IF Len(all_stats) > 1 THEN OverallStats(all_stats) ELSE NoOverall
    /\ pc' = "finished"
    /\ UNCHANGED <<batch_frame, fidx, all_stats, df, cs_vars, acc_vars, stats,
                   h_input, h_prefake>>

NextBatch ==
    \/ ReadContactFile
    \/ ReadNetatmoFile
    \/ ReadFileRaises
    \/ PlotContactFilter
    \/ FilterDataByTime
    \/ AddFakeStates
    \/ SkipStats
    \/ CalcStatsBegin
    \/ RowOpenIdle
    \/ RowOpenGap
    \/ RowOpenCoalesce
    \/ RowClosePending
    \/ RowCloseIdle
    \/ CalcStatsReturn
    \/ CollectStats
    \/ StatsRaises
    \/ OverallStatistics

SpecBatch == InitBatch /\ [][NextBatch]_vars

---------------------------------------------------------------------------
(* Claims *)

Scanning == pc \in {"loop", "done"}

\* C1 as stated: every duration appended to session_durations satisfies
\* 0 < duration_minutes <= 1440.
C1_DurationsPositive ==
    \A k \in 1..Len(session_durations) :
        /\ DurGt(session_durations[k], ZeroDur)
        /\ DurLe(session_durations[k], Minutes(1440))

\* C1 (amended): every duration appended to session_durations satisfies
\* 0 <= duration_minutes <= 1440; 0 is reached by an open and a close that
\* carry the same timestamp.
C1_DurationsBounded ==
    \A k \in 1..Len(session_durations) :
        /\ session_durations[k].s >= 0
        /\ session_durations[k].s <= 1440 * 60
        /\ (session_durations[k].s = 1440 * 60 => session_durations[k].us = 0)

\* C1 witness: a zero-length session and a session of exactly 1440 minutes
\* have both been emitted.
C1_Witness ==
    /\ \E k \in 1..Len(session_durations) : session_durations[k] = ZeroDur
    /\ \E k \in 1..Len(session_durations) : session_durations[k] = Minutes(1440)

SessionsClosedOn(d) == {k \in 1..Len(h_sessions) : DateOf(h_sessions[k].close_at) = d}

RECURSIVE SumSessions(_)
SumSessions(S) ==
    IF S = {} THEN ZeroDur
    ELSE LET k == CHOOSE x \in S : TRUE
         IN  AddDur(h_sessions[k].duration, SumSessions(S \ {k}))

\* C2: after any prefix, daily_open_times has a key for date d exactly when
\* an emitted session closed on d, its value is the sum of the durations of
\* the sessions closed on d, and the buckets sum to the emitted durations.
C2_DailyIsSumByCloseDate ==
    Scanning =>
        /\ DOMAIN daily_open_times = {DateOf(h_sessions[k].close_at) : k \in 1..Len(h_sessions)}
        /\ \A d \in DOMAIN daily_open_times :
               daily_open_times[d] = SumSessions(SessionsClosedOn(d))
        /\ SumOver(daily_open_times, DOMAIN daily_open_times) = SumSeq(session_durations)

\* C2 witness: a session that spans midnight and a second session closed on
\* the same date have been accumulated.
C2_Witness ==
    /\ Scanning
    /\ \E k \in 1..Len(h_sessions) :
           /\ DateOf(h_sessions[k].open_at) # DateOf(h_sessions[k].close_at)
           /\ Cardinality(SessionsClosedOn(DateOf(h_sessions[k].close_at))) >= 2

\* the row being processed is a state=1 observation met while a session is pending
OpenWhilePending == InLoop /\ row.State = 1 /\ open_time # None

\* now - open_at of the row being processed, in whole microseconds past 24 h:
\* strictly more than 24h00m00s
PastOneDay == LET g == Diff(row.Date, open_time)
              IN  g.s > 24 * 3600 \/ (g.s = 24 * 3600 /\ g.us > 0)

\* C3: a state=1 observation met while a session is pending more than 24 h
\* after open_at returns the extractor to Idle, emits nothing, leaves the
\* counter alone and opens no session; at 24h00m00s or less the session
\* stays pending with the same open_at.
C3_GapRule ==
    [][ OpenWhilePending =>
          IF PastOneDay
          THEN /\ open_time' = None
               /\ UNCHANGED <<open_sessions, session_durations, daily_open_times>>
          ELSE /\ open_time' = open_time
               /\ open_time' # None ]_vars

\* C3 witness: an open, an open exactly 24h00m00s later (still pending) and
\* an open 24h00m01s after the first (discarded, nothing opened) were processed.
C3_Witness ==
    /\ pc = "loop"
    /\ i = 4
    /\ \A k \in 1..3 : rows[k].State = 1
    /\ Diff(rows[2].Date, rows[1].Date) = [s |-> 86400, us |-> 0]
    /\ Diff(rows[3].Date, rows[1].Date) = [s |-> 86401, us |-> 0]
    /\ open_time = None
    /\ open_sessions = 1
    /\ session_durations = <<>>

\* the rows j..k-1 are a maximal run of state=1 observations met from Idle,
\* all within 24 h of the first, and row k is the state=0 that follows
RunThenClose(j, k) ==
    /\ j < k
    /\ rows[k].State = 0
    /\ \A m \in j..(k - 1) : rows[m].State = 1
    /\ (j = 1 \/ rows[j - 1].State = 0)
    /\ \A m \in j..(k - 1) : DurLe(Diff(rows[m].Date, rows[j].Date), Hours(24))

SessionsAtRow(k) == {n \in 1..Len(h_sessions) : h_sessions[n].at_row = k}

C5_StatsIgnoreFakeStates ==
    (pc = "done" /\ flow = "multiple") =>
        stats = calculate_statistics(h_prefake, start_date, end_date)

AfterFake == flow = "multiple" /\ pc \in {"stats_call", "loop", "done"}

\* C6: add_fake_states returns a non-empty stream with one observation
\* prepended at 00:00:00.000000 of start's date and one appended at
\* 23:59:59.999999 of end's date, both with the state of the last
\* observation, the observations in between unchanged; without a start or
\* on an empty stream it returns the stream unmodified.
C6_FakeStates ==
    AfterFake =>
        IF start_date = None \/ h_prefake = <<>>
        THEN df = h_prefake
        ELSE LET n == Len(h_prefake)
             IN  /\ Len(df) = n + 2
                 /\ df[1].Date = [s |-> DateOf(start_date) * 86400, us |-> 0]
                 /\ df[n + 2].Date = [s |-> DateOf(end_date) * 86400 + 86399, us |-> 999999]
                 /\ df[1].State = h_prefake[n].State
                 /\ df[n + 2].State = h_prefake[n].State
                 /\ \A k \in 1..n : df[k + 1] = h_prefake[k]

\* C6 witness: a stream whose first and last states differ was augmented
\* under a window whose bounds carry a time of day.
C6_Witness ==
    /\ AfterFake
    /\ Len(h_prefake) >= 2
    /\ h_prefake[1].State = 0
    /\ h_prefake[Len(h_prefake)].State = 1
    /\ start_date # None
    /\ start_date.s % SecondsPerDay # 0
    /\ Len(df) = Len(h_prefake) + 2

\* C7 as stated: the reported day count is (date of window_end - date of
\* window_start) + 1 whatever time of day the bounds carry.
C7_DayCountByDate ==
    (pc = "done" /\ stats.kind = "summary") =>
        stats.NumberOfDays = DateOf(cs_end) - DateOf(cs_start) + 1

Pending == IF open_time # None THEN 1 ELSE 0

\* C8: the counter moves only by +1 and exactly on Idle-to-Pending
\* transitions within a scan; after any prefix it is the number of emitted
\* sessions + sessions discarded at close + sessions discarded by the gap
\* rule + 1 if a session is pending, and a session pending at the end of
\* the stream stays counted.
C8_CounterAccounting ==
    /\ [][ pc = "loop" =>
             /\ open_sessions' \in {open_sessions, open_sessions + 1}
             /\ (open_sessions' = open_sessions + 1)
                    <=> (open_time = None /\ open_time' # None) ]_vars
    /\ [](Scanning =>
            open_sessions = Len(session_durations) + h_close_discards
                            + h_gap_discards + Pending)

\* C8 witness: in plot_contact_data the stream ended with a session pending
\* after an earlier session was discarded.
C8_Witness ==
    /\ pc = "done"
    /\ flow = "contact"
    /\ open_time # None
    /\ h_close_discards + h_gap_discards >= 1
    /\ open_sessions = Len(session_durations) + h_close_discards + h_gap_discards + 1
    /\ Len(h_sessions) = Len(session_durations)

ClosingDates == {DateOf(h_sessions[k].close_at) : k \in 1..Len(h_sessions)}

\* C9: the returned mean opening sessions per day is the counter divided by
\* the number of dates on which an emitted session closed, and 0 when there
\* is none.
C9_MeanSessionsPerBucket ==
    (pc = "done" /\ stats.kind = "summary") =>
        LET m == stats.MeanOpeningSessionsPerDay
            nb == Cardinality(ClosingDates)
        IN  /\ m.den > 0
            /\ IF nb = 0 THEN m.num = 0
               ELSE m.num * nb = open_sessions * m.den

\* C9 witness: a summary whose number of buckets differs from the day count
\* and from the counter.
C9_Witness ==
    /\ pc = "done"
    /\ stats.kind = "summary"
    /\ Cardinality(ClosingDates) >= 1
    /\ Cardinality(ClosingDates) # stats.NumberOfDays
    /\ open_sessions > Len(session_durations)
    /\ stats.MeanOpeningSessionsPerDay.num = open_sessions

\* the row being processed is a state=0 observation
CloseRow == InLoop /\ row.State = 0

\* C10: after a state=0 observation the extractor is Idle; met while pending
\* with a duration over 1440 minutes it leaves the session list and the
\* daily map unchanged; met while Idle it changes nothing.
C10_CloseHandling ==
    [][ CloseRow =>
          /\ open_time' = None
          /\ (open_time # None /\ ~DurLe(Diff(row.Date, open_time), Minutes(1440)))
                 => UNCHANGED <<session_durations, daily_open_times, open_sessions>>
          /\ open_time = None
                 => UNCHANGED <<session_durations, daily_open_times, open_sessions,
                                open_time>> ]_vars

\* C10 witness: a session of more than 1440 minutes was discarded at its
\* close and a close met while Idle followed.
C10_Witness ==
    /\ pc = "loop"
    /\ i >= 4
    /\ rows[i - 1].State = 0
    /\ rows[i - 2].State = 0
    /\ rows[i - 3].State = 1
    /\ h_close_discards = 1
    /\ open_time = None
    /\ session_durations = <<>>
    /\ DOMAIN daily_open_times = {}

\* C11 as stated: a stream with zero observations after filtering yields a
\* summary without raising (0 mean sessions per day, 0 mean session
\* duration, undefined per-day means), with an explicit window and with the
\* window taken from the stream's own min/max; add_fake_states leaves an
\* empty stream unchanged.
C11_EmptyStreamNoError ==
    /\ (pc = "done" /\ rows = <<>>) =>
           /\ stats.kind = "summary"
           /\ stats.MeanOpeningSessionsPerDay = Ratio(0, 1)
           /\ stats.MeanOpenTimePerSession = Mean(ZeroDur, 1)
           /\ stats.MeanMinutesOpenPerDay.n = 0
           /\ stats.MeanMinutesClosedPerDay.n = 0
    /\ (AfterFake /\ h_prefake = <<>>) => df = <<>>

BatchOver == pc \in {"finished", "aborted"}

\* the frame the plot function hands to calculate_statistics for file k
Prepared(k) ==
    IF flow = "contact"
    THEN IF start_date # None /\ end_date # None
         THEN SelectRows(files[k].frame, start_date, end_date)
         ELSE files[k].frame
    ELSE add_fake_states(filter_data_by_time(files[k].frame, start_date, end_date),
                         start_date, end_date)

\* the summary file k gets when it is the only file processed
AloneSummary(k) == calculate_statistics(Prepared(k), start_date, end_date)

HasSummary(k) ==
    \E j \in 1..Len(all_stats) : all_stats[j] = [name |-> k, summary |-> AloneSummary(k)]

\* C12 as stated: in a batch with a stream whose timestamps cannot be
\* parsed, every other contact stream, before or after it, still gets the
\* summary it would get alone.
C12_OtherStreamsKeepSummary ==
    (BatchOver /\ show_stats /\ \E m \in 1..Len(files) : ~files[m].wellformed) =>
        \A k \in 1..Len(files) :
            (files[k].kind = "contact" /\ files[k].wellformed
                /\ AloneSummary(k).kind = "summary") => HasSummary(k)

\* equality of two quotients of timedeltas
SameMean(a, b) == MulDur(a.sum, b.n) = MulDur(b.sum, a.n)

\* the overall value m of a column of quotients is the arithmetic mean of
\* its defined entries
IsMeanOf(m, q) ==
    LET d == SelectSeq(q, IsDefined)
        t == TotalMean(d)
    IN  IF d = <<>> THEN m.n = 0
        ELSE m.n # 0 /\ SameMean(Mean(MulDur(m.sum, Len(d)), m.n), t)

IsRatioMeanOf(m, q) ==
    LET t == TotalRatio(q)
    IN  m.den # 0 /\ m.num * Len(q) * t.den = t.num * m.den

StatsColumn(f) == [k \in 1..Len(all_stats) |-> all_stats[k].summary[f]]

\* C13 as stated: overall statistics are produced exactly when at least two
\* summaries were collected in the batch; they have exactly the four mean
\* fields, each the arithmetic mean of that field over the collected
\* summaries with defined values.
C13_OverallWhenTwoSummaries ==
    BatchOver =>
        /\ overall # NoOverall <=> Len(all_stats) >= 2
        /\ overall # NoOverall =>
             /\ DOMAIN overall = {"MeanMinutesOpenPerDay", "MeanMinutesClosedPerDay",
                                  "MeanOpeningSessionsPerDay", "MeanOpenTimePerSession"}
             /\ IsMeanOf(overall.MeanMinutesOpenPerDay, StatsColumn("MeanMinutesOpenPerDay"))
             /\ IsMeanOf(overall.MeanMinutesClosedPerDay,
                         StatsColumn("MeanMinutesClosedPerDay"))
             /\ IsRatioMeanOf(overall.MeanOpeningSessionsPerDay,
                              StatsColumn("MeanOpeningSessionsPerDay"))
             /\ IsMeanOf(overall.MeanOpenTimePerSession,
                         StatsColumn("MeanOpenTimePerSession"))

InWindow(t) ==
    /\ (start_date.s < t.s \/ (start_date.s = t.s /\ start_date.us <= t.us))
    /\ (t.s < end_date.s \/ (t.s = end_date.s /\ t.us <= end_date.us))

\* g holds exactly the rows of f inside the window, in the order of f
IsWindowOf(g, f) ==
    LET kept == {k \in 1..Len(f) : InWindow(f[k].Date)}
    IN  /\ Len(g) = Cardinality(kept)
        /\ \A k \in kept : g[Cardinality({m \in kept : m <= k})] = f[k]

\* the frame as the caller's filter left it
CallerFiltered == IF flow = "contact" THEN df ELSE h_prefake

\* C15: without one of the bounds the caller's filter returns the stream
\* unmodified; otherwise exactly the observations with start <= timestamp
\* <= end, in their order; filtering the result again changes nothing, and
\* the filter inside calculate_statistics keeps every row of a stream
\* plot_contact_data has filtered.
C15_TimeRangeFilter ==
    pc \in {"stats_call", "loop", "done"} =>
        /\ IF start_date = None \/ end_date = None
           THEN CallerFiltered = h_input
           ELSE IsWindowOf(CallerFiltered, h_input)
        /\ filter_data_by_time(CallerFiltered, start_date, end_date) = CallerFiltered
        /\ (flow = "contact" /\ Scanning /\ start_date # None /\ end_date # None)
               => rows = df

\* C15 witness: a window whose two bounds are timestamps of observations
\* kept those two and dropped one observation before and one after.
C15_Witness ==
    /\ flow = "contact"
    /\ pc = "loop"
    /\ start_date # None
    /\ Len(h_input) = 4
    /\ Len(df) = 2
    /\ df[1] = h_input[2]
    /\ df[2] = h_input[3]
    /\ df[1].Date = start_date
    /\ df[2].Date = end_date
    /\ rows = df

\* C16: every bucket's closed minutes and open minutes add up to 1440, the
\* closed minutes being negative whenever the open minutes exceed 1440; so
\* the two per-day means of a summary add up to 1440 as well.
C16_ClosedPlusOpen ==
    /\ Scanning =>
           \A d \in DOMAIN daily_open_times :
               LET closed == ClosedDuration(daily_open_times)[d]
                   open == daily_open_times[d]
               IN  /\ closed.s + open.s + ((closed.us + open.us) \div 1000000) = 1440 * 60
                   /\ (closed.us + open.us) % 1000000 = 0
                   /\ (open.s > 1440 * 60 \/ (open.s = 1440 * 60 /\ open.us > 0))
                          => closed.s < 0
    /\ (pc = "done" /\ stats.kind = "summary" /\ stats.MeanMinutesOpenPerDay.n > 0) =>
           /\ stats.MeanMinutesClosedPerDay.n = stats.MeanMinutesOpenPerDay.n
           /\ AddDur(stats.MeanMinutesClosedPerDay.sum, stats.MeanMinutesOpenPerDay.sum)
                  = MulDur(Minutes(1440), stats.MeanMinutesOpenPerDay.n)

\* C16 witness: a summary was returned from a bucket of more than 1440 open
\* minutes, whose closed minutes are negative.
C16_Witness ==
    /\ pc = "done"
    /\ stats.kind = "summary"
    /\ \E d \in DOMAIN daily_open_times :
           /\ DurGt(daily_open_times[d], Minutes(1440))
           /\ ClosedDuration(daily_open_times)[d].s < 0
    /\ stats.MeanMinutesClosedPerDay.sum.s < 0

\* C17: the emitted sessions do not overlap (each opens no earlier than the
\* previous one closed), so every bucket holds less than 2880 open minutes
\* and its closed minutes are above -1440; more than 1440 open minutes in a
\* bucket are reachable.
C17_SessionsDisjoint ==
    Scanning =>
        /\ \A k \in 1..(Len(h_sessions) - 1) :
               TLe(h_sessions[k].close_at, h_sessions[k + 1].open_at)
        /\ \A d \in DOMAIN daily_open_times :
               /\ daily_open_times[d].s < 2880 * 60
               /\ LET closed == ClosedDuration(daily_open_times)[d]
                  IN  closed.s > -(1440 * 60) \/ (closed.s = -(1440 * 60) /\ closed.us > 0)

\* C17 witness: a session of exactly 1440 minutes closed on a day on which a
\* second session closed later, the two adding up to more than 1440 minutes.
C17_Witness ==
    /\ Scanning
    /\ Len(h_sessions) = 2
    /\ h_sessions[1].duration = Minutes(1440)
    /\ DateOf(h_sessions[1].close_at) = DateOf(h_sessions[2].close_at)
    /\ h_sessions[2].duration.s > 0
    /\ DurGt(daily_open_times[DateOf(h_sessions[2].close_at)], Minutes(1440))

\* a is not later than b
NotLater(a, b) == a.s < b.s \/ (a.s = b.s /\ a.us <= b.us)

\* C18: in plot_multiple_data a stream in ascending order, filtered to the
\* window and then given its boundary points, is still in ascending order:
\* the point prepended is not later than the first observation and the
\* point appended not earlier than the last, whatever time of day the
\* bounds carry.
C18_FakeStatesKeepOrder ==
    AfterFake =>
        /\ \A k \in 1..(Len(df) - 1) : NotLater(df[k].Date, df[k + 1].Date)
        /\ (start_date # None /\ h_prefake # <<>>) =>
               /\ NotLater(df[1].Date, h_prefake[1].Date)
               /\ NotLater(h_prefake[Len(h_prefake)].Date, df[Len(df)].Date)

\* C18 witness: under a window whose bounds carry a time of day the filter
\* dropped an observation and the boundary points were added around the
\* two or more that were left.
C18_Witness ==
    /\ AfterFake
    /\ start_date # None
    /\ start_date.s % SecondsPerDay # 0
    /\ end_date # ReplaceEndOfDay(end_date)
    /\ Len(h_prefake) >= 2
    /\ Len(h_prefake) < Len(h_input)
    /\ Len(df) = Len(h_prefake) + 2
    /\ df[1].Date # h_prefake[1].Date

\* C19: after any prefix the number of buckets is at most the number of
\* emitted sessions, which is at most the open-session counter; so the
\* returned mean opening sessions per day is 0 or at least 1.
C19_CountingOrder ==
    /\ Scanning =>
           /\ Cardinality(DOMAIN daily_open_times) <= Len(session_durations)
           /\ Len(session_durations) <= open_sessions
    /\ (pc = "done" /\ stats.kind = "summary") =>
           LET m == stats.MeanOpeningSessionsPerDay
           IN  m.den > 0 /\ (m.num = 0 \/ m.num >= m.den)

\* C19 witness: a summary returned from fewer buckets than emitted sessions,
\* with a mean above 1.
C19_Witness ==
    /\ pc = "done"
    /\ stats.kind = "summary"
    /\ Cardinality(DOMAIN daily_open_times) >= 1
    /\ Cardinality(DOMAIN daily_open_times) < Len(session_durations)
    /\ stats.MeanOpeningSessionsPerDay.num > stats.MeanOpeningSessionsPerDay.den

====
